---- MODULE Spec2Model ----
(***************************************************************************)
(* Gmail Rules Manager: the rule evaluator (rules_engine.py), the command  *)
(* line driver (main.py) and the collaborators the driver hands the plan   *)
(* to (actions.py, db.py, email_fetcher.py).                               *)
(*                                                                         *)
(* Strings are sequences of one-character strings so that lower-casing,    *)
(* the substring test and int() are computed, not assumed.  Time is an     *)
(* integer number of clock ticks, DayLen ticks to the day; `now' is the    *)
(* number of ticks since the run started, so received dates of mail that   *)
(* is already in the store are usually negative.                           *)
(***************************************************************************)
EXTENDS Integers, Sequences, FiniteSets, TLC

----------------------------------------------------------------------------
(* Bounds of the model *)

MaxTicks == 1          \* how far the clock may advance during one run
DayLen == 2            \* clock ticks per day
MaxRules == 2          \* rules in a rule set (Spec, SpecEval)
MaxEmails == 2         \* rows of the emails table (Spec, SpecEval)
MaxInbox == 1          \* messages the provider lists on a fetch (Spec)
MaxListed == 2         \* messages the provider lists on a fetch (SpecFetch)
MaxConds == 2          \* conditions of a rule (SpecRule)
MaxApiFailures == 1    \* provider requests that fail during one run

(* Program constant: "Approximate months as 30 days" *)
MonthDays == 30

\* A value that may be None (a nullable column, an optional argument) is a
\* sequence of length at most one: <<>> is None, <<v>> is the value v
NULL == <<>>
Some(v) == <<v>>
Val(x) == x[1]

NoUnit == "absent"     \* a condition dictionary without the key 'unit'

----------------------------------------------------------------------------
(* Python string primitives *)

LowerChar(c) ==
    CASE c = "A" -> "a" [] c = "B" -> "b" [] c = "N" -> "n" [] c = "X" -> "x"
      [] c = "Y" -> "y" [] OTHER -> c

\* str.lower()
Lower(s) == [i \in 1..Len(s) |-> LowerChar(s[i])]

\* a in b, for strings
IsSubstring(a, b) ==
    \E i \in 0..(Len(b) - Len(a)) : SubSeq(b, i + 1, i + Len(a)) = a

\* str.lower() of the dictionary keys' values that select a field or a
\* predicate; these are whole words, so the case variants are enumerated
LowerName(w) ==
    CASE w = "From" -> "from"
      [] w = "Received_Date" -> "received_date"
      [] w = "CONTAINS" -> "contains"
      [] w = "Less_Than" -> "less_than"
      [] OTHER -> w

Digits == {"0", "1", "2", "3", "4", "5", "6", "7", "8", "9"}

DigitVal(c) ==
    CASE c = "0" -> 0 [] c = "1" -> 1 [] c = "2" -> 2 [] c = "3" -> 3
      [] c = "4" -> 4 [] c = "5" -> 5 [] c = "6" -> 6 [] c = "7" -> 7
      [] c = "8" -> 8 [] c = "9" -> 9

RECURSIVE DecimalValue(_)
DecimalValue(s) ==
    IF s = <<>> THEN 0
    ELSE 10 * DecimalValue(SubSeq(s, 1, Len(s) - 1)) + DigitVal(s[Len(s)])

\* the strings int() accepts: an optional sign, then one or more digits
IsIntLiteral(s) ==
    LET body == IF s # <<>> /\ s[1] \in {"-", "+"} THEN Tail(s) ELSE s
    IN  body # <<>> /\ \A i \in 1..Len(body) : body[i] \in Digits

\* int(value) for a string value int() accepts
ParseInt(s) ==
    IF s[1] = "-" THEN 0 - DecimalValue(Tail(s))
    ELSE IF s[1] = "+" THEN DecimalValue(Tail(s))
    ELSE DecimalValue(s)

----------------------------------------------------------------------------
(* rules_engine.py: the condition matcher and the date comparator.        *)
(* A call returns "True" or "False", or raises; a raised ValueError is     *)
(* the result "ValueError: ..." with the message of the raise statement.   *)

ErrUnknownField == "ValueError: Unknown field"
ErrUnknownPredicate == "ValueError: Unknown predicate"
ErrUnknownUnit == "ValueError: Unknown unit"
ErrUnknownDatePredicate == "ValueError: Unknown date predicate"

Raised(r) == r \notin {"True", "False"}

PyBool(b) == IF b THEN "True" ELSE "False"

\* (now - email_date).days: timedelta.days is the floor of the difference
ElapsedDays(now_, email_date) == (now_ - email_date) \div DayLen

\* (a slip: the unit is validated before the soft checks)
CheckDateConditionUnitFirst(predicate, value, unit, email_date, now_) ==
    IF unit \notin {"days", "months"} THEN ErrUnknownUnit
    ELSE IF email_date = NULL THEN "False"
    ELSE IF ~IsIntLiteral(value) THEN "False"
    ELSE LET v == ParseInt(value)
             time_diff == IF unit = "days"
                          THEN ElapsedDays(now_, Val(email_date))
                          ELSE ElapsedDays(now_, Val(email_date)) \div MonthDays
         IN  IF predicate = "less_than" THEN PyBool(time_diff < v)
             ELSE IF predicate = "greater_than" THEN PyBool(time_diff > v)
             ELSE ErrUnknownDatePredicate

\* (a slip: an unknown date predicate is a non-match instead of an error)
CheckDateConditionNoRaise(predicate, value, unit, email_date, now_) ==
    IF email_date = NULL THEN "False"
    ELSE IF ~IsIntLiteral(value) THEN "False"
    ELSE IF unit \notin {"days", "months"} THEN ErrUnknownUnit
    ELSE LET v == ParseInt(value)
             time_diff == IF unit = "days"
                          THEN ElapsedDays(now_, Val(email_date))
                          ELSE ElapsedDays(now_, Val(email_date)) \div MonthDays
         IN  IF predicate = "less_than" THEN PyBool(time_diff < v)
             ELSE IF predicate = "greater_than" THEN PyBool(time_diff > v)
             ELSE "False"

\* (a slip: less_than written as <=)
CheckDateConditionInclusive(predicate, value, unit, email_date, now_) ==
    IF email_date = NULL THEN "False"
    ELSE IF ~IsIntLiteral(value) THEN "False"
    ELSE IF unit \notin {"days", "months"} THEN ErrUnknownUnit
    ELSE LET v == ParseInt(value)
             time_diff == IF unit = "days"
                          THEN ElapsedDays(now_, Val(email_date))
                          ELSE ElapsedDays(now_, Val(email_date)) \div MonthDays
         IN  IF predicate = "less_than" THEN PyBool(time_diff <= v)
             ELSE IF predicate = "greater_than" THEN PyBool(time_diff > v)
             ELSE ErrUnknownDatePredicate

CheckDateCondition(predicate, value, unit, email_date, now_) ==
    IF email_date = NULL THEN "False"
    ELSE IF ~IsIntLiteral(value) THEN "False"
    ELSE IF unit \notin {"days", "months"} THEN ErrUnknownUnit
    ELSE LET v == ParseInt(value)
             time_diff == IF unit = "days"
                          THEN ElapsedDays(now_, Val(email_date))
                          ELSE ElapsedDays(now_, Val(email_date)) \div MonthDays
         IN  IF predicate = "less_than" THEN PyBool(time_diff < v)
             ELSE IF predicate = "greater_than" THEN PyBool(time_diff > v)
             ELSE ErrUnknownDatePredicate

\* email.body_text or ""
BodyOrEmpty(email) == IF email.body_text = NULL THEN <<>> ELSE Val(email.body_text)

StringFields == {"from", "to", "subject", "message"}

FieldValue(field, email) ==
    CASE field = "from" -> email.from_address
      [] field = "to" -> email.to_address
      [] field = "subject" -> email.subject
      [] field = "message" -> BodyOrEmpty(email)

\* condition.get('unit', 'days')
UnitOf(condition) == IF condition.unit = NoUnit THEN "days" ELSE condition.unit

\* (a slip: the field value is not lower-cased)
ConditionMatchesCaseSensitive(condition, email, now_) ==
    LET field == LowerName(condition.field)
        predicate == LowerName(condition.predicate)
        value == condition.value
    IN  IF field = "received_date"
        THEN CheckDateCondition(predicate, value, UnitOf(condition),
                                email.received_date, now_)
        ELSE IF field \notin StringFields THEN ErrUnknownField
        ELSE LET field_value == FieldValue(field, email)
             IN  CASE predicate = "contains" ->
                        PyBool(IsSubstring(Lower(value), field_value))
                   [] predicate = "does_not_contain" ->
                        PyBool(~IsSubstring(Lower(value), field_value))
                   [] predicate = "equals" ->
                        PyBool(Lower(value) = field_value)
                   [] predicate = "does_not_equal" ->
                        PyBool(Lower(value) # field_value)
                   [] OTHER -> ErrUnknownPredicate

ConditionMatches(condition, email, now_) ==
    LET field == LowerName(condition.field)
        predicate == LowerName(condition.predicate)
        value == condition.value
    IN  IF field = "received_date"
        THEN CheckDateCondition(predicate, value, UnitOf(condition),
                                email.received_date, now_)
        ELSE IF field \notin StringFields THEN ErrUnknownField
        ELSE LET field_value == FieldValue(field, email)
             IN  CASE predicate = "contains" ->
                        PyBool(IsSubstring(Lower(value), Lower(field_value)))
                   [] predicate = "does_not_contain" ->
                        PyBool(~IsSubstring(Lower(value), Lower(field_value)))
                   [] predicate = "equals" ->
                        PyBool(Lower(value) = Lower(field_value))
                   [] predicate = "does_not_equal" ->
                        PyBool(Lower(value) # Lower(field_value))
                   [] OTHER -> ErrUnknownPredicate

\* The results of the conditions of a rule, were each one evaluated, the
\* i-th at clock reading nows[i]
ConditionResults(conditions, email, nows) ==
    [i \in 1..Len(conditions) |-> ConditionMatches(conditions[i], email, nows[i])]

\* (a slip: all() written as any())
PyAllAsAny(rs) ==
    IF \A i \in 1..Len(rs) : rs[i] = "False" THEN "False"
    ELSE rs[CHOOSE k \in 1..Len(rs) :
                /\ rs[k] # "False"
                /\ \A j \in 1..(k - 1) : rs[j] = "False"]

\* all(generator): the generator is consumed up to the first element that
\* is not true; that element decides (False, or the exception it raised)
PyAll(rs) ==
    IF \A i \in 1..Len(rs) : rs[i] = "True" THEN "True"
    ELSE rs[CHOOSE k \in 1..Len(rs) :
                /\ rs[k] # "True"
                /\ \A j \in 1..(k - 1) : rs[j] = "True"]

\* any(generator): consumed up to the first element that is not false
PyAny(rs) ==
    IF \A i \in 1..Len(rs) : rs[i] = "False" THEN "False"
    ELSE rs[CHOOSE k \in 1..Len(rs) :
                /\ rs[k] # "False"
                /\ \A j \in 1..(k - 1) : rs[j] = "False"]

\* (a slip: a rule with an unknown combinator is skipped)
RuleAppliesLenient(rule, email, nows) ==
    IF rule.predicate = "all"
    THEN PyAll(ConditionResults(rule.conditions, email, nows))
    ELSE IF rule.predicate = "any"
    THEN PyAny(ConditionResults(rule.conditions, email, nows))
    ELSE "False"

RuleApplies(rule, email, nows) ==
    IF rule.predicate = "all"
    THEN PyAll(ConditionResults(rule.conditions, email, nows))
    ELSE IF rule.predicate = "any"
    THEN PyAny(ConditionResults(rule.conditions, email, nows))
    ELSE ErrUnknownPredicate

\* (a slip: the rule's actions are collected last to first)
TaggedActionsReversed(rule) ==
    [i \in 1..Len(rule.actions) |->
        [action |-> rule.actions[Len(rule.actions) + 1 - i], rule_id |-> rule.id]]

\* the entries evaluate_emails appends for a rule that applies
TaggedActions(rule) ==
    [i \in 1..Len(rule.actions) |-> [action |-> rule.actions[i], rule_id |-> rule.id]]

----------------------------------------------------------------------------
(* State *)

VARIABLES
    args,                \* main.py: the parsed command line (--fetch, --process, --dry-run)
    rules,               \* RulesEngine.rules, the list loaded from the rules file
    emails,              \* db.py: the emails table, one record per row
    action_logs,         \* db.py: the action_logs table
    inbox,               \* the provider's INBOX, as parse_email returns each message
    gmail_labels,        \* the provider's labels
    gmail_calls,         \* the modifying requests sent to the provider so far
    now,                 \* the clock: ticks since the run started
    pc,                  \* where the run is
    email_ids,           \* main: None, or the list fetch_emails returned
    email_data,          \* evaluate_emails: the rows the query returned
    ei,                  \* evaluate_emails: position in email_data
    ri,                  \* evaluate_emails: position in self.rules
    applicable_actions,  \* evaluate_emails: the list collected for the current email
    results,             \* evaluate_emails: the dictionary being built
    plan,                \* main: what evaluate_emails returned (None before it returns)
    response,            \* main: the answer typed at the prompt (None before it)
    xi,                  \* execute_actions: position in the plan
    xj,                  \* execute_actions: position in the current email's actions
    exec_results,        \* execute_actions: the result dictionary being built
    calls                \* history: every _rule_applies call, with the clock
                         \* readings of its conditions and what it returned

vars == <<args, rules, emails, action_logs, inbox, gmail_labels, gmail_calls, now,
          pc, email_ids, email_data, ei, ri, applicable_actions, results, plan,
          response, xi, xj, exec_results, calls>>

evalVars == <<email_data, ei, ri, applicable_actions, results>>
execVars == <<xi, xj, exec_results>>
worldVars == <<emails, action_logs, gmail_labels, gmail_calls>>

----------------------------------------------------------------------------
(* Dictionaries that keep insertion order (email id -> list): a sequence   *)
(* of [email_id, actions] entries with distinct keys                       *)

DictKeys(d) == {d[k].email_id : k \in 1..Len(d)}

DictGet(d, id) == d[CHOOSE k \in 1..Len(d) : d[k].email_id = id].actions

DictSet(d, id, v) ==
    IF id \in DictKeys(d)
    THEN [k \in 1..Len(d) |-> IF d[k].email_id = id
                              THEN [email_id |-> id, actions |-> v] ELSE d[k]]
    ELSE Append(d, [email_id |-> id, actions |-> v])

----------------------------------------------------------------------------
(* rules_engine.py: evaluate_emails *)

\* The rows session.query(Email) returns: filtered by id when email_ids is
\* truthy (neither None nor the empty list), all rows otherwise
RECURSIVE SelectRows(_, _)
SelectRows(rows, ids) ==
    IF rows = <<>> THEN <<>>
    ELSE IF Head(rows).id \in ids
         THEN <<Head(rows)>> \o SelectRows(Tail(rows), ids)
         ELSE SelectRows(Tail(rows), ids)

Range(f) == {f[k] : k \in DOMAIN f}

QueryEmails(ids) ==
    IF ids # NULL /\ Val(ids) # <<>>
    THEN SelectRows(emails, Range(Val(ids)))
    ELSE emails

\* The clock readings of one _rule_applies call: _check_date_condition reads
\* datetime.utcnow() once per received_date condition, and the clock never
\* runs backwards.  t[i] is the clock when condition i is reached; it can
\* have advanced only where a reading observes it.
ReadsClock(condition) == LowerName(condition.field) = "received_date"

ClockReadings(conditions) ==
    {t \in [1..Len(conditions) -> now..MaxTicks] :
        \A i \in 1..Len(conditions) :
            LET before == IF i = 1 THEN now ELSE t[i - 1]
            IN  IF ReadsClock(conditions[i]) THEN before <= t[i] ELSE t[i] = before}

\* lines 45-65: the query, and the copy of the rows
EvaluateQuery ==
    /\ pc = "process"
    /\ args.process
    /\ email_data' = QueryEmails(email_ids)
    /\ ei' = 1
    /\ ri' = 1
    /\ applicable_actions' = <<>>
    /\ results' = <<>>
    /\ pc' = "evaluate"
    /\ UNCHANGED <<args, rules, inbox, now, email_ids, plan, response, calls>>
    /\ UNCHANGED worldVars
    /\ UNCHANGED execVars

\* lines 74-81: one iteration of the loop over the rules, for the current email
EvaluateRule ==
    /\ pc = "evaluate"
    /\ ei <= Len(email_data)
    /\ ri <= Len(rules)
    /\ LET rule == rules[ri]
           email == email_data[ei]
       IN  \E nows \in ClockReadings(rule.conditions) :
             LET applies == RuleApplies(rule, email, nows)
             IN  /\ calls' = Append(calls, [email |-> email, rule |-> rule,
                                            nows |-> nows, result |-> applies])
                 /\ now' = IF nows = <<>> THEN now ELSE nows[Len(nows)]
                 /\ IF Raised(applies)
                    THEN \* the exception leaves evaluate_emails and main
                         /\ pc' = "failed"
                         /\ UNCHANGED <<ri, applicable_actions>>
                    ELSE /\ pc' = pc
                         /\ ri' = ri + 1
                         /\ applicable_actions' =
                              IF applies = "True"
                              THEN applicable_actions \o TaggedActions(rule)
                              ELSE applicable_actions
    /\ UNCHANGED <<args, rules, inbox, email_ids, email_data, ei, results, plan,
                   response>>
    /\ UNCHANGED worldVars
    /\ UNCHANGED execVars

\* (a slip: line 83's test left out, every evaluated email gets an entry)
EvaluateCollectAlways ==
    /\ pc = "evaluate"
    /\ ei <= Len(email_data)
    /\ ri > Len(rules)
    /\ results' = DictSet(results, email_data[ei].id, applicable_actions)
    /\ ei' = ei + 1
    /\ ri' = 1
    /\ applicable_actions' = <<>>
    /\ UNCHANGED <<args, rules, inbox, now, pc, email_ids, email_data, plan,
                   response, calls>>
    /\ UNCHANGED worldVars
    /\ UNCHANGED execVars

\* lines 83-84: the end of the loop body for the current email
EvaluateCollect ==
    /\ pc = "evaluate"
    /\ ei <= Len(email_data)
    /\ ri > Len(rules)
    /\ results' = IF applicable_actions # <<>>
                  THEN DictSet(results, email_data[ei].id, applicable_actions)
                  ELSE results
    /\ ei' = ei + 1
    /\ ri' = 1
    /\ applicable_actions' = <<>>
    /\ UNCHANGED <<args, rules, inbox, now, pc, email_ids, email_data, plan,
                   response, calls>>
    /\ UNCHANGED worldVars
    /\ UNCHANGED execVars

\* line 86, and main's assignment of the returned dictionary
EvaluateReturn ==
    /\ pc = "evaluate"
    /\ ei > Len(email_data)
    /\ plan' = Some(results)
    /\ pc' = "evaluated"
    /\ UNCHANGED <<args, rules, inbox, now, email_ids, response, calls>>
    /\ UNCHANGED evalVars
    /\ UNCHANGED worldVars
    /\ UNCHANGED execVars

----------------------------------------------------------------------------
(* db.py and email_fetcher.py *)

\* the row with this id, as session.query(Email).filter(Email.id == id).first()
\* returns it: None when there is none (ids are the row numbers)
EmailById(table, id) ==
    IF \E k \in 1..Len(table) : table[k].id = id
    THEN Some(table[CHOOSE k \in 1..Len(table) : table[k].id = id])
    ELSE NULL

RowOfMessage(table, message_id) ==
    {k \in 1..Len(table) : table[k].message_id = message_id}

\* store_email adding a row whatever the table holds
StoreEmailAlwaysInsert(table, data) ==
    [table |-> Append(table, [data EXCEPT !.id = Len(table) + 1]),
     id |-> Len(table) + 1]

\* store_email: the table after the call, and the id it returns
StoreEmail(table, data) ==
    IF RowOfMessage(table, data.message_id) # {}
    THEN LET k == CHOOSE r \in RowOfMessage(table, data.message_id) : TRUE
         IN  [table |-> [table EXCEPT ![k] = [data EXCEPT !.id = table[k].id]],
              id |-> table[k].id]
    ELSE [table |-> Append(table, [data EXCEPT !.id = Len(table) + 1]),
          id |-> Len(table) + 1]

\* the loop of fetch_emails over the listed messages; db_ok[k] says whether
\* the k-th store_email call commits (when it does not, store_email rolls
\* back and returns None, and fetch_emails leaves the message out)
RECURSIVE StoreAll(_, _, _, _)
StoreAll(table, messages, db_ok, ids) ==
    IF messages = <<>> THEN [table |-> table, ids |-> ids]
    ELSE IF Head(db_ok)
    THEN LET st == StoreEmail(table, Head(messages))
         IN  StoreAll(st.table, Tail(messages), Tail(db_ok), Append(ids, st.id))
    ELSE StoreAll(table, Tail(messages), Tail(db_ok), ids)

\* log_action
LogAction(logs, email_id, action_type, rule_id, success) ==
    Append(logs, [email_id |-> email_id, action_type |-> action_type,
                  rule_id |-> rule_id, success |-> success])

----------------------------------------------------------------------------
(* actions.py *)

\* config.py: DRY_RUN
DRY_RUN == FALSE

INBOX == <<"I", "N", "B", "O", "X">>
UNREAD == <<"U", "N", "R", "E", "A", "D">>

\* the id the provider gives a label it creates
NewLabelId(name) == <<"L", "_">> \o name

SetRow(table, id, row) == [k \in 1..Len(table) |-> IF table[k].id = id THEN row ELSE table[k]]

Outcome(table, logs, labels, sent, success, message) ==
    [emails |-> table, action_logs |-> logs, gmail_labels |-> labels,
     gmail_calls |-> sent, result |-> [success |-> success, message |-> message]]

\* What the provider does with the requests of one action: it serves them
\* all ("ok"), fails the first one ("fail"), or serves the label requests
\* and fails the final modify ("fail_modify")
ApiOutcomes == {"ok", "fail", "fail_modify"}

\* mark_as_read (target TRUE) and mark_as_unread (target FALSE); the modify
\* request is the only request
\* mark_as_read / mark_as_unread updating the row before the provider request
MarkReadStoreFirst(target, email_id, rule_id, api) ==
    LET found == EmailById(emails, email_id)
        action_type == IF target THEN "mark_as_read" ELSE "mark_as_unread"
    IN  IF found = NULL
        THEN Outcome(emails, action_logs, gmail_labels, gmail_calls, FALSE, "not found")
        ELSE LET email == Val(found)
             IN  IF DRY_RUN
                 THEN Outcome(emails, LogAction(action_logs, email_id, action_type, rule_id, TRUE),
                              gmail_labels, gmail_calls, TRUE, "dry run")
                 ELSE IF email.is_read = target
                 THEN Outcome(emails, LogAction(action_logs, email_id, action_type, rule_id, TRUE),
                              gmail_labels, gmail_calls, TRUE, "already")
                 ELSE IF api = "ok"
                 THEN Outcome(SetRow(emails, email_id, [email EXCEPT !.is_read = target]),
                              LogAction(action_logs, email_id, action_type, rule_id, TRUE),
                              gmail_labels,
                              Append(gmail_calls, [request |-> "modify",
                                                   message_id |-> email.message_id,
                                                   add |-> IF target THEN <<>> ELSE <<UNREAD>>,
                                                   remove |-> IF target THEN <<UNREAD>> ELSE <<>>]),
                              TRUE, "marked")
                 ELSE Outcome(SetRow(emails, email_id, [email EXCEPT !.is_read = target]),
                              LogAction(action_logs, email_id, action_type, rule_id, FALSE),
                              gmail_labels, gmail_calls, FALSE, "error")

MarkRead(target, email_id, rule_id, api) ==
    LET found == EmailById(emails, email_id)
        action_type == IF target THEN "mark_as_read" ELSE "mark_as_unread"
    IN  IF found = NULL
        THEN Outcome(emails, action_logs, gmail_labels, gmail_calls, FALSE, "not found")
        ELSE LET email == Val(found)
             IN  IF DRY_RUN
                 THEN Outcome(emails, LogAction(action_logs, email_id, action_type, rule_id, TRUE),
                              gmail_labels, gmail_calls, TRUE, "dry run")
                 ELSE IF email.is_read = target
                 THEN Outcome(emails, LogAction(action_logs, email_id, action_type, rule_id, TRUE),
                              gmail_labels, gmail_calls, TRUE, "already")
                 ELSE IF api = "ok"
                 THEN Outcome(SetRow(emails, email_id, [email EXCEPT !.is_read = target]),
                              LogAction(action_logs, email_id, action_type, rule_id, TRUE),
                              gmail_labels,
                              Append(gmail_calls, [request |-> "modify",
                                                   message_id |-> email.message_id,
                                                   add |-> IF target THEN <<>> ELSE <<UNREAD>>,
                                                   remove |-> IF target THEN <<UNREAD>> ELSE <<>>]),
                              TRUE, "marked")
                 ELSE Outcome(emails, LogAction(action_logs, email_id, action_type, rule_id, FALSE),
                              gmail_labels, gmail_calls, FALSE, "error")

\* the label of the provider's list whose name is the destination, ignoring case
LabelNamed(labels, destination) ==
    {k \in 1..Len(labels) : Lower(labels[k].name) = Lower(destination)}

RemoveLabel(ls, l) == SelectSeq(ls, LAMBDA x : x # l)

\* move_message: list the labels, create the destination label when no label
\* has that name, modify the message, then update the row
MoveMessage(email_id, destination, rule_id, api) ==
    LET found == EmailById(emails, email_id)
    IN  IF found = NULL
        THEN Outcome(emails, action_logs, gmail_labels, gmail_calls, FALSE, "not found")
        ELSE LET email == Val(found)
             IN  IF DRY_RUN
                 THEN Outcome(emails, LogAction(action_logs, email_id, "move_message", rule_id, TRUE),
                              gmail_labels, gmail_calls, TRUE, "dry run")
                 ELSE IF api # "fail"
                 THEN LET existing == LabelNamed(gmail_labels, destination)
                          label_id == IF existing # {}
                                      THEN gmail_labels[CHOOSE k \in existing :
                                                          \A j \in existing : k <= j].id
                                      ELSE NewLabelId(destination)
                          labels1 == IF existing # {} THEN gmail_labels
                                     ELSE Append(gmail_labels, [id |-> label_id,
                                                                name |-> destination])
                          sent1 == IF existing # {} THEN gmail_calls
                                   ELSE Append(gmail_calls, [request |-> "create_label",
                                                             message_id |-> <<>>,
                                                             add |-> <<label_id>>,
                                                             remove |-> <<>>])
                          without == RemoveLabel(email.labels, INBOX)
                          moved == IF \E k \in 1..Len(without) : without[k] = label_id
                                   THEN without ELSE Append(without, label_id)
                      IN  IF api = "ok"
                          THEN Outcome(SetRow(emails, email_id, [email EXCEPT !.labels = moved]),
                                       LogAction(action_logs, email_id, "move_message", rule_id, TRUE),
                                       labels1,
                                       Append(sent1, [request |-> "modify",
                                                      message_id |-> email.message_id,
                                                      add |-> <<label_id>>,
                                                      remove |-> <<INBOX>>]),
                                       TRUE, "moved")
                          ELSE Outcome(emails,
                                       LogAction(action_logs, email_id, "move_message", rule_id, FALSE),
                                       labels1, sent1, FALSE, "error")
                 ELSE Outcome(emails, LogAction(action_logs, email_id, "move_message", rule_id, FALSE),
                              gmail_labels, gmail_calls, FALSE, "error")

\* the dispatch of execute_actions on action['type']
PerformAction(action_info, email_id, api) ==
    LET action == action_info.action
        rule_id == action_info.rule_id
    IN  CASE action.type = "mark_as_read" -> MarkRead(TRUE, email_id, rule_id, api)
          [] action.type = "mark_as_unread" -> MarkRead(FALSE, email_id, rule_id, api)
          [] action.type = "move_message" ->
                MoveMessage(email_id, action.destination, rule_id, api)
          [] OTHER -> Outcome(emails, action_logs, gmail_labels, gmail_calls,
                              FALSE, "unknown action type")

----------------------------------------------------------------------------
(* main.py *)

\* lines 47-50: --fetch; the provider lists the inbox and every listed
\* message is stored
FetchEmails ==
    /\ pc = "start"
    /\ args.fetch
    /\ \E db_ok \in [1..Len(inbox) -> BOOLEAN] :
         LET st == StoreAll(emails, inbox, db_ok, <<>>)
         IN  /\ emails' = st.table
             /\ email_ids' = Some(st.ids)
    /\ pc' = "process"
    /\ UNCHANGED <<args, rules, action_logs, inbox, gmail_labels, gmail_calls, now,
                   plan, response, calls>>
    /\ UNCHANGED evalVars
    /\ UNCHANGED execVars

\* line 46: without --fetch email_ids stays None
SkipFetch ==
    /\ pc = "start"
    /\ ~args.fetch
    /\ pc' = "process"
    /\ UNCHANGED <<args, rules, inbox, now, email_ids, plan, response, calls>>
    /\ UNCHANGED worldVars
    /\ UNCHANGED evalVars
    /\ UNCHANGED execVars

\* line 53: without --process the run ends here
SkipProcess ==
    /\ pc = "process"
    /\ ~args.process
    /\ pc' = "done"
    /\ UNCHANGED <<args, rules, inbox, now, email_ids, plan, response, calls>>
    /\ UNCHANGED worldVars
    /\ UNCHANGED evalVars
    /\ UNCHANGED execVars

\* lines 62-64: an empty plan
NoActions ==
    /\ pc = "evaluated"
    /\ Val(plan) = <<>>
    /\ pc' = "done"
    /\ UNCHANGED <<args, rules, inbox, now, email_ids, plan, response, calls>>
    /\ UNCHANGED worldVars
    /\ UNCHANGED evalVars
    /\ UNCHANGED execVars

Responses == {<<"y">>, <<"Y">>, <<"n">>, <<>>}

\* a prompt that goes on unless the answer is 'n'
ConfirmUnlessNo ==
    /\ pc = "evaluated"
    /\ Val(plan) # <<>>
    /\ \E typed \in Responses :
         /\ response' = Some(typed)
         /\ pc' = IF typed = <<"n">> THEN "done" ELSE "execute"
    /\ xi' = 1
    /\ xj' = 1
    /\ exec_results' = <<>>
    /\ UNCHANGED <<args, rules, inbox, now, email_ids, plan, calls>>
    /\ UNCHANGED worldVars
    /\ UNCHANGED evalVars

\* lines 77-80: the prompt
Confirm ==
    /\ pc = "evaluated"
    /\ Val(plan) # <<>>
    /\ \E typed \in Responses :
         /\ response' = Some(typed)
         /\ pc' = IF Lower(typed) # <<"y">> THEN "done" ELSE "execute"
    /\ xi' = 1
    /\ xj' = 1
    /\ exec_results' = <<>>
    /\ UNCHANGED <<args, rules, inbox, now, email_ids, plan, calls>>
    /\ UNCHANGED worldVars
    /\ UNCHANGED evalVars

\* the provider requests that have failed so far: each one is logged
FailedRequests == Cardinality({k \in 1..Len(action_logs) : ~action_logs[k].success})

\* execute_actions leaving the loop over an email's actions at the first failure
ExecuteActionStopOnFailure ==
    /\ pc = "execute"
    /\ xi <= Len(Val(plan))
    /\ xj <= Len(Val(plan)[xi].actions)
    /\ LET email_id == Val(plan)[xi].email_id
           before == IF xj = 1 THEN <<>> ELSE DictGet(exec_results, email_id)
       IN  \E api \in ApiOutcomes :
             LET out == PerformAction(Val(plan)[xi].actions[xj], email_id, api)
             IN  /\ api # "ok" => FailedRequests < MaxApiFailures
                 /\ emails' = out.emails
                 /\ action_logs' = out.action_logs
                 /\ gmail_labels' = out.gmail_labels
                 /\ gmail_calls' = out.gmail_calls
                 /\ exec_results' = DictSet(exec_results, email_id,
                                            Append(before, out.result))
    /\ xj' = IF DictGet(exec_results', Val(plan)[xi].email_id)[xj].success
             THEN xj + 1 ELSE Len(Val(plan)[xi].actions) + 1
    /\ UNCHANGED <<args, rules, inbox, now, pc, email_ids, plan, response, xi, calls>>
    /\ UNCHANGED evalVars

\* execute_actions, lines 24-45: one iteration of the loop over the actions
\* of the current email (line 22 before the first one)
ExecuteAction ==
    /\ pc = "execute"
    /\ xi <= Len(Val(plan))
    /\ xj <= Len(Val(plan)[xi].actions)
    /\ LET email_id == Val(plan)[xi].email_id
           before == IF xj = 1 THEN <<>> ELSE DictGet(exec_results, email_id)
       IN  \E api \in ApiOutcomes :
             LET out == PerformAction(Val(plan)[xi].actions[xj], email_id, api)
             IN  /\ api # "ok" => FailedRequests < MaxApiFailures
                 /\ emails' = out.emails
                 /\ action_logs' = out.action_logs
                 /\ gmail_labels' = out.gmail_labels
                 /\ gmail_calls' = out.gmail_calls
                 /\ exec_results' = DictSet(exec_results, email_id,
                                            Append(before, out.result))
    /\ xj' = xj + 1
    /\ UNCHANGED <<args, rules, inbox, now, pc, email_ids, plan, response, xi, calls>>
    /\ UNCHANGED evalVars

\* execute_actions, line 21: on to the next email of the plan
ExecuteNextEmail ==
    /\ pc = "execute"
    /\ xi <= Len(Val(plan))
    /\ xj > Len(Val(plan)[xi].actions)
    /\ exec_results' = IF xj = 1
                       THEN DictSet(exec_results, Val(plan)[xi].email_id, <<>>)
                       ELSE exec_results
    /\ xi' = xi + 1
    /\ xj' = 1
    /\ UNCHANGED <<args, rules, inbox, now, pc, email_ids, plan, response, calls>>
    /\ UNCHANGED worldVars
    /\ UNCHANGED evalVars

\* execute_actions, line 47, and main's report, lines 86-97
ExecuteReturn ==
    /\ pc = "execute"
    /\ xi > Len(Val(plan))
    /\ pc' = "done"
    /\ UNCHANGED <<args, rules, inbox, now, email_ids, plan, response, calls>>
    /\ UNCHANGED worldVars
    /\ UNCHANGED evalVars
    /\ UNCHANGED execVars

----------------------------------------------------------------------------
(* Inputs *)

RuleId(i) == <<"R", i>>
MessageId(i) == <<"m", i>>

\* the rule sets of at most n rules drawn from a pool; the i-th rule has id RuleId(i)
RuleSets(pool, n) ==
    UNION {{[i \in 1..k |-> [id |-> RuleId(i), predicate |-> f[i].predicate,
                              conditions |-> f[i].conditions, actions |-> f[i].actions]]
             : f \in [1..k -> pool]} : k \in 0..n}

\* the tables of at most n rows drawn from a pool; row i has id i and message id MessageId(i)
Tables(pool, n) ==
    UNION {{[i \in 1..k |-> [f[i] EXCEPT !.id = i, !.message_id = MessageId(i)]]
             : f \in [1..k -> pool]} : k \in 0..n}

SeqsUpTo(S, n) == UNION {[1..k -> S] : k \in 0..n}

Mail(from, body, received, is_read) ==
    [id |-> 0, message_id |-> MessageId(0), from_address |-> from,
     to_address |-> <<"m", "e">>, subject |-> <<"H", "i">>, body_text |-> body,
     received_date |-> received, is_read |-> is_read, labels |-> <<INBOX>>]

Cond(field, predicate, value, unit) ==
    [field |-> field, predicate |-> predicate, value |-> value, unit |-> unit]

MarkAsRead == [type |-> "mark_as_read", destination |-> <<>>]
MarkAsUnread == [type |-> "mark_as_unread", destination |-> <<>>]
MoveTo(destination) == [type |-> "move_message", destination |-> destination]
Archive == [type |-> "archive", destination |-> <<>>]      \* no such action type

FromHasA == Cond("from", "contains", <<"a">>, NoUnit)
YoungerThanADay == Cond("received_date", "less_than", <<"1">>, "days")
CcHasA == Cond("cc", "contains", <<"a">>, NoUnit)          \* no such field

\* a received date: `days' whole days and `ticks' ticks before the run starts
Ago(days, ticks) == Some(0 - (days * DayLen) - ticks)

Blank ==
    /\ now = 0
    /\ action_logs = <<>>
    /\ gmail_labels = <<[id |-> INBOX, name |-> INBOX]>>
    /\ gmail_calls = <<>>
    /\ email_data = <<>>
    /\ ei = 1
    /\ ri = 1
    /\ applicable_actions = <<>>
    /\ results = <<>>
    /\ plan = NULL
    /\ response = NULL
    /\ xi = 1
    /\ xj = 1
    /\ exec_results = <<>>
    /\ calls = <<>>

(* Spec: the whole run of main.py *)

MainRules ==
    [predicate : {"all", "xor"},
     conditions : {<<FromHasA>>},
     actions : {<<MarkAsRead>>, <<MoveTo(<<"X">>), Archive>>}]

MainMails ==
    {Mail(<<"a">>, NULL, Ago(0, 1), FALSE), Mail(<<"b">>, NULL, Ago(0, 1), TRUE)}

\* what the provider lists on the fetch of a whole run
ListedMails == {Mail(<<"a">>, NULL, Ago(0, 1), FALSE)}

Init ==
    /\ Blank
    /\ pc = "start"
    /\ email_ids = NULL
    /\ args \in [fetch : BOOLEAN, process : BOOLEAN, dry_run : BOOLEAN]
    /\ rules \in RuleSets(MainRules, MaxRules)
    /\ emails \in Tables(MainMails, MaxEmails)
    /\ inbox \in {[i \in 1..Len(m) |-> [m[i] EXCEPT !.message_id = MessageId(i)]]
                    : m \in SeqsUpTo(ListedMails, MaxInbox)}

Next ==
    \/ FetchEmails
    \/ SkipFetch
    \/ SkipProcess
    \/ EvaluateQuery
    \/ EvaluateRule
    \/ EvaluateCollect
    \/ EvaluateReturn
    \/ NoActions
    \/ Confirm
    \/ ExecuteAction
    \/ ExecuteNextEmail
    \/ ExecuteReturn

Spec == Init /\ [][Next]_vars

----------------------------------------------------------------------------
(* SpecEval: evaluate_emails on its own (a --process run without --fetch), *)
(* over rule sets whose rules match, do not match, or raise                *)

EvalRules ==
    [predicate : {"all", "xor"},
     conditions : {<<>>, <<FromHasA>>, <<YoungerThanADay>>},
     actions : {<<>>, <<MarkAsRead>>, <<MoveTo(<<"X">>), MarkAsUnread>>}]

\* received DayLen - 1 ticks before the run starts: less than a day old at
\* the start of the run, a day old one tick later
EvalMails ==
    {Mail(<<"a">>, NULL, Ago(0, DayLen - 1), FALSE),
     Mail(<<"b">>, NULL, Ago(0, DayLen - 1), FALSE)}

AtProcess ==
    /\ Blank
    /\ pc = "process"
    /\ args = [fetch |-> FALSE, process |-> TRUE, dry_run |-> FALSE]
    /\ email_ids = NULL
    /\ inbox = <<>>

InitEval ==
    /\ AtProcess
    /\ rules \in RuleSets(EvalRules, MaxRules)
    /\ emails \in Tables(EvalMails, MaxEmails)

NextEval ==
    \/ EvaluateQuery
    \/ EvaluateRule
    \/ EvaluateCollect
    \/ EvaluateReturn

SpecEval == InitEval /\ [][NextEval]_vars

(* SpecRule: one rule of up to MaxConds conditions against one email *)

SubjectMatchesA == Cond("subject", "matches", <<"a">>, NoUnit)   \* no such predicate

RuleConds == {FromHasA, YoungerThanADay, CcHasA, SubjectMatchesA}

RuleRules ==
    [predicate : {"all", "any", "xor"},
     conditions : SeqsUpTo(RuleConds, MaxConds),
     actions : {<<MarkAsRead>>}]

InitRule ==
    /\ AtProcess
    /\ rules \in RuleSets(RuleRules, 1)
    /\ emails \in Tables(EvalMails, 1)

SpecRule == InitRule /\ [][NextEval]_vars

(* SpecCond: one condition against one email *)

CondValues == {<<>>, <<"a">>, <<"A", "b">>}

StringConds ==
    {Cond(f, p, v, NoUnit) :
        f \in {"from", "From", "to", "subject", "message", "cc"},
        p \in {"contains", "CONTAINS", "does_not_contain", "equals",
               "does_not_equal", "matches"},
        v \in CondValues}

DateConds ==
    {Cond(f, p, v, u) :
        f \in {"received_date"},
        p \in {"less_than", "Less_Than", "greater_than", "equals"},
        v \in {<<"2">>, <<"1">>, <<"-", "1">>, <<"x">>, <<>>},
        u \in {"days", "months", "weeks", NoUnit}}

CondMails ==
    {Mail(from, body, received, FALSE) :
        from \in {<<"a">>, <<"b", "A">>, <<"a", "B", "a">>},
        body \in {NULL, Some(<<>>), Some(<<"A", "b">>)},
        received \in {NULL} \cup {Ago(d, t) : d \in {0 - 1, 0, 2, 59, 60},
                                              t \in {0, DayLen - 1}}}

InitCond ==
    /\ AtProcess
    /\ \E c \in StringConds \cup DateConds :
         rules = <<[id |-> RuleId(1), predicate |-> "all", conditions |-> <<c>>,
                    actions |-> <<MarkAsRead>>]>>
    /\ emails \in Tables(CondMails, 1)

SpecCond == InitCond /\ [][NextEval]_vars

\* a run of --process alone, from the evaluation to the end of the
\* execution, over rules whose actions cover every action type
ExecRules ==
    [predicate : {"all"},
     conditions : {<<FromHasA>>},
     actions : {<<MarkAsRead>>, <<MarkAsUnread>>,
                <<MoveTo(<<"X">>), Archive, MarkAsRead>>}]

ExecMails ==
    {Mail(<<"a">>, NULL, Ago(0, 1), FALSE),
     Mail(<<"a">>, NULL, Ago(0, 1), TRUE)}

InitExec ==
    /\ AtProcess
    /\ rules \in RuleSets(ExecRules, MaxRules)
    /\ emails \in Tables(ExecMails, MaxEmails)

NextExec ==
    \/ EvaluateQuery
    \/ EvaluateRule
    \/ EvaluateCollect
    \/ EvaluateReturn
    \/ NoActions
    \/ Confirm
    \/ ExecuteAction
    \/ ExecuteNextEmail
    \/ ExecuteReturn

SpecExec == InitExec /\ [][NextExec]_vars

\* a run of --fetch alone: the provider lists messages that are new to the
\* store (message id MessageId(0)) or already stored, possibly more than once
FetchMails ==
    {[m EXCEPT !.message_id = MessageId(i)] : m \in MainMails, i \in 0..MaxEmails}

InitFetch ==
    /\ Blank
    /\ pc = "start"
    /\ email_ids = NULL
    /\ args = [fetch |-> TRUE, process |-> FALSE, dry_run |-> FALSE]
    /\ rules = <<>>
    /\ emails \in Tables(MainMails, MaxEmails)
    /\ inbox \in SeqsUpTo(FetchMails, MaxListed)

NextFetch ==
    \/ FetchEmails
    \/ SkipProcess

SpecFetch == InitFetch /\ [][NextFetch]_vars

----------------------------------------------------------------------------
(* Properties of evaluate_emails (SpecEval) *)

\* the _rule_applies calls made so far for the email with this id
CallsFor(id) == {k \in 1..Len(calls) : calls[k].email.id = id}

Matched(k) == calls[k].result = "True"

EvaluatedIds == {email_data[k].id : k \in 1..Len(email_data)}

\* C1 as stated: once evaluate_emails has returned, the keys of the plan are
\* exactly the evaluated messages that at least one rule matched, whether
\* or not that rule has any action.
C1_KeyIffSomeRuleMatched ==
    plan # NULL =>
        \A id \in EvaluatedIds :
            id \in DictKeys(Val(plan)) <=> \E k \in CallsFor(id) : Matched(k)

\* C1 amended: once evaluate_emails has returned, the keys of the plan are
\* exactly the evaluated messages matched by at least one rule that has at
\* least one action; no other identifier is a key.
C1_KeyIffMatchedRuleHasActions ==
    plan # NULL =>
        /\ DictKeys(Val(plan)) \subseteq EvaluatedIds
        /\ \A id \in EvaluatedIds :
              id \in DictKeys(Val(plan)) <=>
                  \E k \in CallsFor(id) : Matched(k) /\ calls[k].rule.actions # <<>>

\* a returned plan with a key, and an evaluated message that only rules
\* without actions matched and that is not a key
C1_Witness ==
    /\ plan # NULL
    /\ DictKeys(Val(plan)) # {}
    /\ \E id \in EvaluatedIds \ DictKeys(Val(plan)) : \E k \in CallsFor(id) : Matched(k)

\* what the rules up to the n-th contribute to the list of a message: for
\* each rule that matched it, in rule-set order, one (action, rule id) pair
\* per action of the rule, in the rule's order
RECURSIVE Contribution(_, _)
Contribution(id, n) ==
    IF n = 0 THEN <<>>
    ELSE Contribution(id, n - 1) \o
         (IF \E k \in CallsFor(id) : Matched(k) /\ calls[k].rule = rules[n]
          THEN [i \in 1..Len(rules[n].actions) |->
                   [action |-> rules[n].actions[i], rule_id |-> rules[n].id]]
          ELSE <<>>)

\* C2: the list of every message of the returned plan is the concatenation,
\* in rule-set order, of the action lists of the rules that matched it, each
\* entry tagged with its rule's identifier.
C2_ListIsConcatenationInRuleOrder ==
    plan # NULL =>
        \A k \in 1..Len(Val(plan)) :
            Val(plan)[k].actions = Contribution(Val(plan)[k].email_id, Len(rules))

\* a plan entry that holds the actions of two rules, one of them with two actions
C2_Witness ==
    /\ plan # NULL
    /\ \E k \in 1..Len(Val(plan)) :
          LET l == Val(plan)[k].actions
          IN  /\ Len(l) = 3
              /\ l[1].rule_id = RuleId(1)
              /\ l[2].rule_id = RuleId(2)
              /\ l[3].rule_id = RuleId(2)
              /\ l[2].action # l[3].action

----------------------------------------------------------------------------
(* Properties of _rule_applies (SpecRule) *)

\* a condition whose field is unrecognized, or whose field is a string
\* field and whose predicate is not one of the four string predicates
Malformed(condition) ==
    \/ LowerName(condition.field) \notin StringFields \cup {"received_date"}
    \/ /\ LowerName(condition.field) \in StringFields
       /\ LowerName(condition.predicate) \notin
             {"contains", "does_not_contain", "equals", "does_not_equal"}

\* C3: every evaluation of a rule that holds a malformed condition raises,
\* whatever the combinator and wherever the condition stands in the rule.
C3_MalformedConditionAlwaysRaises ==
    \A k \in 1..Len(calls) :
        (\E i \in 1..Len(calls[k].rule.conditions) :
            Malformed(calls[k].rule.conditions[i]))
        => Raised(calls[k].result)

\* whether the i-th condition of the k-th call matches, at the clock reading
\* the call had for it
ConditionHolds(k, i) ==
    ConditionMatches(calls[k].rule.conditions[i], calls[k].email, calls[k].nows[i]) = "True"

\* C4: a call of _rule_applies that returns, returns true under `all' iff
\* every condition matches and under `any' iff some condition matches; so
\* with no condition `all' is true and `any' is false.
C4_AllAnySemantics ==
    \A k \in 1..Len(calls) :
        LET n == Len(calls[k].rule.conditions)
        IN  /\ (calls[k].rule.predicate = "all" /\ ~Raised(calls[k].result)) =>
                  (Matched(k) <=> \A i \in 1..n : ConditionHolds(k, i))
            /\ (calls[k].rule.predicate = "any" /\ ~Raised(calls[k].result)) =>
                  (Matched(k) <=> \E i \in 1..n : ConditionHolds(k, i))
            /\ (calls[k].rule.predicate = "all" /\ n = 0) => calls[k].result = "True"
            /\ (calls[k].rule.predicate = "any" /\ n = 0) => calls[k].result = "False"

\* an `any' rule of two conditions that matches by its second condition
C4_Witness ==
    \E k \in 1..Len(calls) :
        /\ calls[k].rule.predicate = "any"
        /\ Len(calls[k].rule.conditions) = 2
        /\ ~ConditionHolds(k, 1)
        /\ ConditionHolds(k, 2)
        /\ Matched(k)

----------------------------------------------------------------------------
(* Properties of the whole run (Spec) *)

BadCombinator == \E r \in 1..Len(rules) : rules[r].predicate \notin {"all", "any"}

\* C5: with a rule of unknown combinator in the rule set, evaluating the
\* first message raises: evaluate_emails never gets to a second message and
\* returns no plan, the run ends in main's exception handler, and nothing is
\* executed (no provider request, no log entry, no result, no prompt).
C5_UnknownCombinatorAborts ==
    BadCombinator =>
        /\ pc \notin {"execute"}
        /\ gmail_calls = <<>> /\ action_logs = <<>> /\ exec_results = <<>>
        /\ response = NULL
        /\ pc = "evaluate" => (ei = 1 /\ results = <<>>)
        /\ email_data # <<>> => (plan = NULL /\ pc \in {"evaluate", "failed"})
        /\ plan # NULL => Val(plan) = <<>>

\* the run has failed on the second rule, after the first rule matched and
\* its actions were collected
C5_Witness ==
    /\ pc = "failed"
    /\ BadCombinator
    /\ applicable_actions # <<>>
    /\ calls[Len(calls)].result = ErrUnknownPredicate
    /\ plan = NULL

----------------------------------------------------------------------------
(* Properties of the date comparator and the condition matcher (SpecCond) *)

IsDateCall(k) ==
    /\ Len(calls[k].rule.conditions) = 1
    /\ calls[k].rule.predicate = "all"
    /\ LowerName(calls[k].rule.conditions[1].field) = "received_date"

IsStringCall(k) ==
    /\ Len(calls[k].rule.conditions) = 1
    /\ calls[k].rule.predicate = "all"
    /\ LowerName(calls[k].rule.conditions[1].field) \in StringFields

TheCond(k) == calls[k].rule.conditions[1]

DatePredicateKnown(c) == LowerName(c.predicate) \in {"less_than", "greater_than"}
UnitKnown(c) == c.unit \in {"days", "months", NoUnit}

\* C6: a received_date condition on a message without a received date, or
\* with a value that is no integer, is false and raises nothing, for every
\* predicate, value and unit.
C6_MissingDateOrValueIsSoftFalse ==
    \A k \in 1..Len(calls) :
        (IsDateCall(k) /\ (calls[k].email.received_date = NULL
                           \/ ~IsIntLiteral(TheCond(k).value)))
        => calls[k].result = "False"

\* an unknown predicate and an unknown unit, on a message without a date
C6_Witness ==
    \E k \in 1..Len(calls) :
        /\ IsDateCall(k)
        /\ calls[k].email.received_date = NULL
        /\ ~DatePredicateKnown(TheCond(k))
        /\ ~UnitKnown(TheCond(k))
        /\ calls[k].result = "False"

\* C7 as stated: a received_date condition with an unknown predicate or an
\* unknown unit raises for every message.
C7_BadDateConditionAlwaysRaises ==
    \A k \in 1..Len(calls) :
        (IsDateCall(k) /\ (~DatePredicateKnown(TheCond(k)) \/ ~UnitKnown(TheCond(k))))
        => Raised(calls[k].result)

\* C7 amended: it raises for every message that has a received date, when
\* the value is an integer.
C7_BadDateConditionRaisesWhenDated ==
    \A k \in 1..Len(calls) :
        (/\ IsDateCall(k)
         /\ ~DatePredicateKnown(TheCond(k)) \/ ~UnitKnown(TheCond(k))
         /\ calls[k].email.received_date # NULL
         /\ IsIntLiteral(TheCond(k).value))
        => Raised(calls[k].result)

\* a known unit with an unknown predicate, raised
C7_Witness ==
    \E k \in 1..Len(calls) :
        /\ IsDateCall(k)
        /\ UnitKnown(TheCond(k))
        /\ ~DatePredicateKnown(TheCond(k))
        /\ calls[k].result = ErrUnknownDatePredicate

\* whole days between the received date and the clock reading of the call
WholeDays(k) == (calls[k].nows[1] - Val(calls[k].email.received_date)) \div DayLen

\* C8: for a dated message and an integer value v, elapsed is the whole days
\* since the message was received, divided by 30 (whole part) when the unit
\* is months; less_than is elapsed < v, greater_than is elapsed > v.  With
\* months, 2 and less_than, 59 days match and 60 days do not.
C8_ElapsedComparison ==
    \A k \in 1..Len(calls) :
        (/\ IsDateCall(k)
         /\ DatePredicateKnown(TheCond(k)) /\ UnitKnown(TheCond(k))
         /\ calls[k].email.received_date # NULL
         /\ IsIntLiteral(TheCond(k).value))
        => LET c == TheCond(k)
               v == ParseInt(c.value)
               elapsed == IF c.unit = "months" THEN WholeDays(k) \div 30
                          ELSE WholeDays(k)
           IN  /\ LowerName(c.predicate) = "less_than" =>
                     (Matched(k) <=> elapsed < v) /\ ~Raised(calls[k].result)
               /\ LowerName(c.predicate) = "greater_than" =>
                     (Matched(k) <=> elapsed > v) /\ ~Raised(calls[k].result)
               /\ (c.unit = "months" /\ c.value = <<"2">>
                   /\ LowerName(c.predicate) = "less_than") =>
                     /\ WholeDays(k) = 59 => Matched(k)
                     /\ WholeDays(k) = 60 => ~Matched(k)

\* 60 days, less than 2 months: no match
C8_Witness ==
    \E k \in 1..Len(calls) :
        /\ IsDateCall(k)
        /\ TheCond(k).unit = "months"
        /\ TheCond(k).value = <<"2">>
        /\ TheCond(k).predicate = "less_than"
        /\ calls[k].email.received_date # NULL
        /\ WholeDays(k) = 60
        /\ calls[k].result = "False"

\* a rule whose result depends on the received date of the message only
DateOnly(rule) ==
    /\ rule.predicate \in {"all", "any"}
    /\ \A i \in 1..Len(rule.conditions) :
          LowerName(rule.conditions[i].field) = "received_date"

\* C9: within one run, two messages with the same received date get the
\* same result from the same date rule.
C9_SameDateSameResult ==
    \A k1, k2 \in 1..Len(calls) :
        (/\ calls[k1].rule = calls[k2].rule
         /\ DateOnly(calls[k1].rule)
         /\ calls[k1].email.received_date = calls[k2].email.received_date)
        => calls[k1].result = calls[k2].result

\* a is a substring of b, b being cut into what precedes a, a, and what follows
Occurs(a, b) ==
    \E before, after \in 0..Len(b) :
        /\ before + Len(a) + after = Len(b)
        /\ \A i \in 1..Len(a) : a[i] = b[before + i]

\* the same letters, upper or lower case
SameLetter(x, y) ==
    \E pair \in {<<"a", "A">>, <<"b", "B">>, <<"x", "X">>, <<"y", "Y">>} :
        {x, y} \subseteq {pair[1], pair[2]}

Folded(s) ==
    [i \in 1..Len(s) |->
        IF s[i] \in {"A", "B", "X", "Y"}
        THEN CHOOSE l \in {"a", "b", "x", "y"} : SameLetter(l, s[i])
        ELSE s[i]]

\* the text a string condition looks at
TextOf(k) ==
    LET f == LowerName(TheCond(k).field)
        e == calls[k].email
    IN  IF f = "from" THEN e.from_address
        ELSE IF f = "to" THEN e.to_address
        ELSE IF f = "subject" THEN e.subject
        ELSE IF e.body_text = NULL THEN <<>> ELSE e.body_text[1]

WithPredicate(c, p) == [c EXCEPT !.predicate = p]

\* C10: on from, to, subject and message, contains is the substring test and
\* equals is equality, both on the lower-cased value and the lower-cased
\* text (an absent body being the empty text); does_not_contain and
\* does_not_equal give the negation of what contains and equals give for the
\* same condition value and message.
C10_StringPredicates ==
    \A k \in 1..Len(calls) :
        IsStringCall(k) =>
            LET c == TheCond(k)
                p == LowerName(c.predicate)
                v == Folded(c.value)
                t == Folded(TextOf(k))
                positive == IF p = "does_not_contain" THEN "contains" ELSE "equals"
            IN  /\ p = "contains" => calls[k].result = PyBool(Occurs(v, t))
                /\ p = "equals" => calls[k].result = PyBool(v = t)
                /\ p \in {"does_not_contain", "does_not_equal"} =>
                      /\ ~Raised(calls[k].result)
                      /\ Matched(k) <=>
                            ConditionMatches(WithPredicate(c, positive), calls[k].email,
                                             calls[k].nows[1]) # "True"

\* does_not_contain is false for a value found in the text in another case
C10_Witness ==
    \E k \in 1..Len(calls) :
        /\ IsStringCall(k)
        /\ TheCond(k).predicate = "does_not_contain"
        /\ TheCond(k).value = <<"A", "b">>
        /\ TextOf(k) = <<"a", "B", "a">>
        /\ calls[k].result = "False"

-----------------------------------------------------------------------------
(* Properties of the selection and of the command line (Spec)              *)

\* the identifiers handed to evaluate_emails, when a list was handed over
Supplied == IF email_ids = NULL THEN {} ELSE Range(Val(email_ids))

Queried == pc \in {"evaluate", "failed", "evaluated", "confirm", "execute", "done"}
              /\ args.process

\* C11: all stored messages are evaluated only when email_ids is None; when
\* a list is supplied, the empty list of a fetch that stored nothing
\* included, only messages whose identifier is in the list are evaluated,
\* and every key of the returned plan is in the list.
C11_OnlySuppliedIdsEvaluated ==
    (Queried /\ email_ids # NULL) =>
        /\ EvaluatedIds \subseteq Supplied
        /\ plan # NULL => DictKeys(Val(plan)) \subseteq Supplied

\* the row of the store that evaluate_emails read as email_data[k]
StoredNow(k) == EmailById(emails, email_data[k].id)

\* every result reported so far by execute_actions
Reported == UNION {Range(exec_results[k].actions) : k \in 1..Len(exec_results)}

\* C12: in a run started with --dry-run no action is performed: no modify
\* or label request reaches the mail provider, the stored is_read flag and
\* labels of every message stay as they were read, and each action is only
\* simulated, reported as a success.
C12_DryRunPerformsNothing ==
    args.dry_run =>
        /\ gmail_calls = <<>>
        /\ Queried =>
              \A k \in 1..Len(email_data) :
                  /\ Val(StoredNow(k)).is_read = email_data[k].is_read
                  /\ Val(StoredNow(k)).labels = email_data[k].labels
        /\ \A r \in Reported : r.success /\ r.message = "dry run"

-----------------------------------------------------------------------------
(* Properties of execute_actions and of the prompt (SpecExec, Spec)         *)

AnsweredYes == response # NULL /\ Lower(Val(response)) = <<"y">>

KnownTypes == {"mark_as_read", "mark_as_unread", "move_message"}

FailureMessages == {"unknown action type", "not found", "error"}

\* the planned actions, email after email, each with its result
RECURSIVE Executed(_, _)
Executed(planned, reported) ==
    IF planned = <<>> THEN <<>>
    ELSE [j \in 1..Len(Head(planned).actions) |->
             [email_id |-> Head(planned).email_id,
              action_info |-> Head(planned).actions[j],
              result |-> Head(reported).actions[j]]]
         \o Executed(Tail(planned), Tail(reported))

\* C13: execute_actions returns, for every message of the plan, one result
\* per planned action, in plan order; an action of an unknown type, on a
\* message that is not found, or whose provider request fails has
\* success = False at its own position, and the actions after it, of the
\* same message and of the later messages, are executed all the same.
C13_OneResultPerPlannedAction ==
    (pc = "done" /\ AnsweredYes) =>
        /\ Len(exec_results) = Len(Val(plan))
        /\ \A k \in 1..Len(exec_results) :
              /\ exec_results[k].email_id = Val(plan)[k].email_id
              /\ Len(exec_results[k].actions) = Len(Val(plan)[k].actions)
        /\ LET done == Executed(Val(plan), exec_results)
               requested == SelectSeq(done, LAMBDA x :
                                /\ x.action_info.action.type \in KnownTypes
                                /\ x.result.message # "not found")
           IN  /\ \A n \in 1..Len(done) :
                     /\ done[n].result.message = "unknown action type"
                           <=> done[n].action_info.action.type \notin KnownTypes
                     /\ done[n].result.message = "not found"
                           => EmailById(emails, done[n].email_id) = NULL
                     /\ done[n].result.success
                           <=> done[n].result.message \notin FailureMessages
               /\ Len(action_logs) = Len(requested)
               /\ \A n \in 1..Len(requested) :
                     action_logs[n] =
                         [email_id |-> requested[n].email_id,
                          action_type |-> requested[n].action_info.action.type,
                          rule_id |-> requested[n].action_info.rule_id,
                          success |-> requested[n].result.success]

\* the first message's provider request fails, its next action has an
\* unknown type, and the action after that and the second message's action
\* succeed
C13_Witness ==
    /\ pc = "done"
    /\ Len(exec_results) = 2
    /\ Len(exec_results[1].actions) >= 3
    /\ exec_results[1].actions[1].message = "error"
    /\ exec_results[1].actions[2].message = "unknown action type"
    /\ exec_results[1].actions[3].success
    /\ exec_results[2].actions[1].success

\* C14: in a run with --process no action is executed, that is no request
\* reaches the provider, no row of the store is updated and no entry is
\* added to the audit log, before the user has been prompted and has
\* answered 'y' in either case; after any other answer, or with an empty
\* plan, the run ends having executed nothing.
C14_NothingExecutedBeforeYes ==
    [][/\ (\/ action_logs' # action_logs
           \/ gmail_calls' # gmail_calls
           \/ gmail_labels' # gmail_labels
           \/ exec_results' # exec_results
           \/ (emails' # emails /\ pc # "start"))
          => (pc = "execute" /\ AnsweredYes)
       /\ pc' = "execute" => (AnsweredYes' /\ Val(plan') # <<>>)
       /\ (pc' = "done" /\ ~AnsweredYes')
          => (action_logs' = <<>> /\ gmail_calls' = <<>> /\ exec_results' = <<>>)
      ]_vars

\* after the answer 'Y' a request has reached the provider and is logged
C14_Witness ==
    /\ response = Some(<<"Y">>)
    /\ gmail_calls # <<>>
    /\ action_logs # <<>>

IsReadOf(table, id) == Val(EmailById(table, id)).is_read

\* C15: mark_as_read and mark_as_unread change the stored is_read flag of a
\* message only after the provider's modify request of that same action has
\* succeeded, and then to the action's target value; when the message is
\* already in the target state no request is made; when the request fails
\* the flag is left as it was and the result has success = False.
C15_FlagFollowsProvider ==
    [][(pc = "execute" /\ xj' = xj + 1) =>
          LET email_id == Val(plan)[xi].email_id
              action == Val(plan)[xi].actions[xj].action
              target == action.type = "mark_as_read"
              result == DictGet(exec_results', email_id)[xj]
              before == IsReadOf(emails, email_id)
              after == IsReadOf(emails', email_id)
              request == [request |-> "modify",
                          message_id |-> Val(EmailById(emails, email_id)).message_id,
                          add |-> IF target THEN <<>> ELSE <<UNREAD>>,
                          remove |-> IF target THEN <<UNREAD>> ELSE <<>>]
          IN  /\ \A k \in 1..Len(emails) :
                    emails'[k].is_read # emails[k].is_read =>
                        /\ emails[k].id = email_id
                        /\ action.type \in {"mark_as_read", "mark_as_unread"}
              /\ action.type \in {"mark_as_read", "mark_as_unread"} =>
                    /\ after # before =>
                          /\ after = target
                          /\ gmail_calls' = Append(gmail_calls, request)
                          /\ result.success
                    /\ before = target =>
                          /\ gmail_calls' = gmail_calls
                          /\ emails' = emails
                    /\ gmail_calls' = gmail_calls => after = before
                    /\ result.message = "error" =>
                          /\ ~result.success
                          /\ gmail_calls' = gmail_calls
                          /\ emails' = emails
                    /\ (before # target /\ result.success) => after = target
      ]_vars

\* a read message has been marked as unread: the request adding UNREAD was
\* made and the stored flag is False
C15_Witness ==
    \E k \in 1..Len(exec_results) :
        /\ Val(plan)[k].actions[1].action.type = "mark_as_unread"
        /\ exec_results[k].actions[1] = [success |-> TRUE, message |-> "marked"]
        /\ \E n \in 1..Len(gmail_calls) :
              /\ gmail_calls[n].add = <<UNREAD>>
              /\ gmail_calls[n].message_id = MessageId(exec_results[k].email_id)
        /\ \E n \in 1..Len(email_data) :
              /\ email_data[n].id = exec_results[k].email_id
              /\ email_data[n].is_read
        /\ Len(Val(plan)[k].actions) = 1
        /\ ~IsReadOf(emails, exec_results[k].email_id)

-----------------------------------------------------------------------------
(* Properties of store_email and fetch_emails (SpecFetch)                   *)

MessageIds(table) == {table[k].message_id : k \in 1..Len(table)}

\* C16: after any sequence of store_email calls the store holds at most one
\* record per provider message id: storing data whose message id is present
\* updates that record in place and returns its local identifier, never
\* adding a second record; the identifiers fetch_emails returns are those
\* of records of the store.
C16_OneRecordPerMessageId ==
    [][(pc = "start" /\ args.fetch) =>
          LET ids == Val(email_ids')
          IN  /\ \A j, k \in 1..Len(emails') :
                    emails'[j].message_id = emails'[k].message_id => j = k
              /\ Len(emails') >= Len(emails)
              /\ \A k \in 1..Len(emails) :
                    /\ emails'[k].id = emails[k].id
                    /\ emails'[k].message_id = emails[k].message_id
              /\ \A k \in Len(emails) + 1..Len(emails') :
                    /\ emails'[k].id = k
                    /\ emails'[k].message_id \in MessageIds(inbox) \ MessageIds(emails)
              /\ \A n \in 1..Len(ids) :
                    /\ EmailById(emails', ids[n]) # NULL
                    /\ Val(EmailById(emails', ids[n])).message_id \in MessageIds(inbox)
                    /\ \A k \in 1..Len(emails) :
                          emails[k].message_id
                              = Val(EmailById(emails', ids[n])).message_id
                          => ids[n] = emails[k].id
      ]_vars

\* two rows were stored; the provider listed the first row's message and a
\* new one: the first row is updated with what was listed and keeps its
\* identifier, the new message is the third row
C16_Witness ==
    /\ pc = "process"
    /\ Len(inbox) = 2
    /\ inbox[1].message_id = MessageId(1)
    /\ inbox[2].message_id = MessageId(0)
    /\ email_ids = Some(<<1, 3>>)
    /\ Len(emails) = 3
    /\ emails[1] = [inbox[1] EXCEPT !.id = 1]
    /\ emails[3] = [inbox[2] EXCEPT !.id = 3]

====
